---- MODULE Spec2Model ----
(***************************************************************************)
(* A model of src/src/main.rs: the Signal (a Mutex<SignalState> plus a     *)
(* Condvar) and the block_on driver loop built on it.                      *)
(*                                                                         *)
(* Every thread is a small program counter machine.  The Mutex is explicit *)
(* (lock, poisoned), so is the Condvar's set of parked threads, and every  *)
(* statement executed under the lock is a step of its own.                 *)
(*                                                                         *)
(* Three programs run on this state:                                       *)
(*   SpecSignal  - one thread calls wait() again and again, notifier       *)
(*                 threads call notify() (the single-waiter contract);     *)
(*   SpecMulti   - as SpecSignal, with a second thread calling wait();     *)
(*   SpecBlockOn - block_on driving a future that is Pending fut.n times   *)
(*                 and whose wake handle is invoked from the poll itself   *)
(*                 or from the notifier threads.                           *)
(* FairSignal and FairBlockOn add the scheduling under which the liveness   *)
(* properties are checked.                                                 *)
(***************************************************************************)
EXTENDS Naturals, FiniteSets, Sequences, TLC

\* ------------------------------------------------------------------ bounds
\* the largest number of Pending polls of a modelled future
MaxPending == 2
\* notify() calls available to the notifiers (all of them, per run)
MaxNotifyCalls == 3
\* wait() calls made by the threads of SpecSignal and SpecMulti (per run)
MaxWaitCalls == 3

\* ----------------------------------------------------------------- threads
Driver == "driver"
Other == "other"
Notifiers == {"n1", "n2"}
Waiters == {Driver, Other}
Threads == Waiters \cup Notifiers

None == "none"
Values == {41, 42}

\* enum SignalState
SignalState == {"Empty", "Waiting", "Notified"}

\* positions inside Signal::wait and Signal::notify
WaitLabels == {"w_lock", "w_match", "w_loop", "w_parked", "w_reacquire", "w_unlock"}
BlockingLabels == {"w_loop", "w_parked", "w_reacquire"}
NotifyLabels == {"n_lock", "n_match", "n_unlock"}

\* a Poll<T> not yet produced / an output not yet delivered
NoneYet == <<"none", 0>>

\* the futures block_on is run on: Pending on the first n polls, then Ready(val)
\* or a panic carrying val; "once" invokes the wake handle exactly once per
\* Pending poll, "any" invokes it any number of times (up to MaxNotifyCalls)
Futures == [n : 0..MaxPending, kind : {"once", "any"}, end : {"ready", "panic"}, val : Values]
NoFuture == [n |-> 0, kind |-> "none", end |-> "none", val |-> 0]

VARIABLES
    state,      \* Signal.state: the SignalState inside the Mutex
    lock,       \* the thread holding the Mutex, or None
    poisoned,   \* the Mutex is poisoned (a thread panicked holding it)
    parked,     \* threads blocked inside cond.wait
    pc,         \* each thread's position
    fut,        \* the future given to block_on
    polls,      \* polls of the future started
    waits,      \* signal.wait() calls made by block_on
    owed,       \* wake-handle invocations still available to be made
    polled,     \* what the last poll returned
    result,     \* what block_on delivered to its caller
    notifs,     \* history: notify() critical sections executed
    idleNotifs, \* history: those executed since the driver's last wait() call began, outside wait()
    base,       \* history: notifs at the last consumption of a notification
    call,       \* history: per waiter, its current (or last) wait() call
    stage,      \* history: monitor of "k notify, wait, wait" sequences
    waitCalls,  \* wait() calls made so far in SpecSignal / SpecMulti
    returned,   \* history: wait() calls that have returned
    absorbed,   \* history: notify() calls that found the mode Notified
    late        \* history: notify() critical sections executed after block_on returned

vars == <<state, lock, poisoned, parked, pc, fut, polls, waits, owed, polled,
          result, notifs, idleNotifs, base, call, stage, waitCalls, returned, absorbed, late>>

sigVars == <<state, lock, poisoned, parked>>
futVars == <<fut, polls, waits, polled, result>>

InWait(t) == pc[t] \in WaitLabels
InNotify(t) == pc[t] \in NotifyLabels

NoCall == [pre |-> 0, path |-> "none", mark |-> 0, ok |-> FALSE, spur |-> FALSE,
           second |-> FALSE]

\* the record of a wait() call that begins now
NewCall(t) ==
    [pre |-> IF t = Driver THEN idleNotifs ELSE 0,
     path |-> "none", mark |-> 0, ok |-> FALSE, spur |-> FALSE,
     second |-> \E u \in Waiters \ {t} : pc[u] \in BlockingLabels]

\* no notify() call is in flight on another thread
Quiet(t) == \A u \in Threads \ {t} : ~InNotify(u)

\* Signal::new (lines 38-43) and the threads before any call
InitCommon ==
    /\ state = "Empty"
    /\ lock = None
    /\ poisoned = FALSE
    /\ parked = {}
    /\ polls = 0
    /\ waits = 0
    /\ polled = NoneYet
    /\ result = NoneYet
    /\ notifs = 0
    /\ idleNotifs = 0
    /\ base = 0
    /\ call = [t \in Waiters |-> NoCall]
    /\ stage = 0
    /\ waitCalls = 0
    /\ returned = 0
    /\ absorbed = 0
    /\ late = 0

\* ------------------------------------------------------------ Signal::wait

\* a thread begins a call of wait(): line 45
EnterWait(t) ==
    /\ pc' = [pc EXCEPT ![t] = "w_lock"]
    /\ call' = [call EXCEPT ![t] = NewCall(t)]
    /\ idleNotifs' = IF t = Driver THEN 0 ELSE idleNotifs
    /\ stage' = IF t # Driver THEN 0
                ELSE IF Quiet(t) /\ idleNotifs >= 2 THEN 1
                ELSE IF stage = 2 THEN 3
                ELSE 0

CallWait(t) ==
    /\ pc[t] = "idle"
    /\ waitCalls < MaxWaitCalls
    /\ waitCalls' = waitCalls + 1
    /\ EnterWait(t)
    /\ UNCHANGED <<sigVars, futVars, owed, notifs, base, returned, absorbed, late>>

\* line 46: self.state.lock().unwrap()
WaitLock(t) ==
    /\ pc[t] = "w_lock"
    /\ lock = None
    /\ IF poisoned
       THEN /\ pc' = [pc EXCEPT ![t] = "panicked"]
            /\ UNCHANGED lock
       ELSE /\ pc' = [pc EXCEPT ![t] = "w_match"]
            /\ lock' = t
    /\ UNCHANGED <<state, poisoned, parked, futVars, owed, notifs, idleNotifs,
                   base, call, stage, waitCalls, returned, absorbed, late>>

\* a wait() that does not consume the notification it returns on
WaitMatchKeepsNotified(t) ==
    /\ pc[t] = "w_match"
    /\ lock = t
    /\ CASE state = "Notified" ->
              /\ pc' = [pc EXCEPT ![t] = "w_unlock"]
              /\ call' = [call EXCEPT ![t].path = "fast", ![t].ok = (notifs > base)]
              /\ base' = notifs
              /\ UNCHANGED <<state, lock, poisoned>>
         [] state = "Waiting" ->
              /\ poisoned' = TRUE
              /\ lock' = None
              /\ pc' = [pc EXCEPT ![t] = "panicked"]
              /\ call' = [call EXCEPT ![t].path = "panic"]
              /\ UNCHANGED <<state, base>>
         [] state = "Empty" ->
              /\ state' = "Waiting"
              /\ pc' = [pc EXCEPT ![t] = "w_loop"]
              /\ call' = [call EXCEPT ![t].path = "slow", ![t].mark = notifs]
              /\ UNCHANGED <<lock, poisoned, base>>
    /\ UNCHANGED <<parked, futVars, owed, notifs, idleNotifs, stage, waitCalls, returned, absorbed, late>>

\* lines 47-53: match *state
WaitMatch(t) ==
    /\ pc[t] = "w_match"
    /\ lock = t
    /\ CASE state = "Notified" ->
              \* line 48
              /\ state' = "Empty"
              /\ pc' = [pc EXCEPT ![t] = "w_unlock"]
              /\ call' = [call EXCEPT ![t].path = "fast", ![t].ok = (notifs > base)]
              /\ base' = notifs
              /\ UNCHANGED <<lock, poisoned>>
         [] state = "Waiting" ->
              \* lines 49-51: unreachable!; the guard is dropped by a panicking
              \* thread, which poisons the Mutex
              /\ poisoned' = TRUE
              /\ lock' = None
              /\ pc' = [pc EXCEPT ![t] = "panicked"]
              /\ call' = [call EXCEPT ![t].path = "panic"]
              /\ UNCHANGED <<state, base>>
         [] state = "Empty" ->
              \* lines 52-53
              /\ state' = "Waiting"
              /\ pc' = [pc EXCEPT ![t] = "w_loop"]
              /\ call' = [call EXCEPT ![t].path = "slow", ![t].mark = notifs]
              /\ UNCHANGED <<lock, poisoned, base>>
    /\ UNCHANGED <<parked, futVars, owed, notifs, idleNotifs, stage, waitCalls, returned, absorbed, late>>

\* a wait() that blocks with the Mutex still held (it keeps the guard while parked)
WaitLoopHoldsLock(t) ==
    /\ pc[t] = "w_loop"
    /\ lock = t
    /\ IF state = "Waiting"
       THEN /\ parked' = parked \cup {t}
            /\ pc' = [pc EXCEPT ![t] = "w_parked"]
            /\ UNCHANGED <<lock, call, base>>
       ELSE /\ pc' = [pc EXCEPT ![t] = "w_unlock"]
            /\ call' = [call EXCEPT ![t].ok = (notifs > call[t].mark)]
            /\ base' = call[t].mark + 1
            /\ UNCHANGED <<lock, parked>>
    /\ UNCHANGED <<state, poisoned, futVars, owed, notifs, idleNotifs, stage,
                   waitCalls, returned, absorbed, late>>

\* a wait() that checks the mode once ("if" for "while"): it parks once and
\* returns on the first wakeup, whatever the mode
WaitLoopOnce(t) ==
    /\ pc[t] = "w_loop"
    /\ lock = t
    /\ IF state = "Waiting" /\ ~call[t].spur
       THEN /\ lock' = None
            /\ parked' = parked \cup {t}
            /\ pc' = [pc EXCEPT ![t] = "w_parked"]
            /\ UNCHANGED <<call, base>>
       ELSE /\ pc' = [pc EXCEPT ![t] = "w_unlock"]
            /\ call' = [call EXCEPT ![t].ok = (notifs > call[t].mark)]
            /\ base' = call[t].mark + 1
            /\ UNCHANGED <<lock, parked>>
    /\ UNCHANGED <<state, poisoned, futVars, owed, notifs, idleNotifs, stage,
                   waitCalls, returned, absorbed, late>>

\* lines 54-56: while let Waiting = *state { state = cond.wait(state) }
\* cond.wait releases the Mutex and parks the thread in one step
WaitLoop(t) ==
    /\ pc[t] = "w_loop"
    /\ lock = t
    /\ IF state = "Waiting"
       THEN /\ lock' = None
            /\ parked' = parked \cup {t}
            /\ pc' = [pc EXCEPT ![t] = "w_parked"]
            /\ UNCHANGED <<call, base>>
       ELSE /\ pc' = [pc EXCEPT ![t] = "w_unlock"]
            /\ call' = [call EXCEPT ![t].ok = (notifs > call[t].mark)]
            /\ base' = call[t].mark + 1
            /\ UNCHANGED <<lock, parked>>
    /\ UNCHANGED <<state, poisoned, futVars, owed, notifs, idleNotifs, stage,
                   waitCalls, returned, absorbed, late>>

\* line 55: a Condvar may wake a parked thread with no notify_one
SpuriousWakeup(t) ==
    /\ pc[t] = "w_parked"
    /\ t \in parked
    /\ parked' = parked \ {t}
    /\ pc' = [pc EXCEPT ![t] = "w_reacquire"]
    /\ call' = [call EXCEPT ![t].spur = TRUE]
    /\ UNCHANGED <<state, lock, poisoned, futVars, owed, notifs, idleNotifs,
                   base, stage, waitCalls, returned, absorbed, late>>

\* line 55: cond.wait reacquires the Mutex before it returns; .unwrap()
CondReacquire(t) ==
    /\ pc[t] = "w_reacquire"
    /\ lock = None
    /\ IF poisoned
       THEN /\ pc' = [pc EXCEPT ![t] = "panicked"]
            /\ UNCHANGED lock
       ELSE /\ pc' = [pc EXCEPT ![t] = "w_loop"]
            /\ lock' = t
    /\ UNCHANGED <<state, poisoned, parked, futVars, owed, notifs, idleNotifs,
                   base, call, stage, waitCalls, returned, absorbed, late>>

\* line 59: the guard is dropped, wait() returns to its caller
WaitReturn(t, after) ==
    /\ pc[t] = "w_unlock"
    /\ lock = t
    /\ lock' = None
    /\ pc' = [pc EXCEPT ![t] = after]
    /\ stage' = IF t # Driver THEN stage ELSE IF stage = 1 THEN 2 ELSE 0
    /\ returned' = returned + 1
    /\ UNCHANGED <<state, poisoned, parked, futVars, owed, notifs, idleNotifs,
                   base, call, waitCalls, absorbed, late>>

\* ---------------------------------------------------------- Signal::notify

\* a thread holding the wake handle (or the Signal) calls notify(): lines 61, 75-77
CallNotify(t) ==
    /\ pc[t] = "idle"
    /\ owed > 0
    /\ owed' = owed - 1
    /\ pc' = [pc EXCEPT ![t] = "n_lock"]
    /\ stage' = 0
    /\ UNCHANGED <<sigVars, futVars, notifs, idleNotifs, base, call, waitCalls, returned, absorbed, late>>

\* line 62: self.state.lock().unwrap()
NotifyLock(t) ==
    /\ pc[t] = "n_lock"
    /\ lock = None
    /\ IF poisoned
       THEN /\ pc' = [pc EXCEPT ![t] = "panicked"]
            /\ UNCHANGED lock
       ELSE /\ pc' = [pc EXCEPT ![t] = "n_match"]
            /\ lock' = t
    /\ UNCHANGED <<state, poisoned, parked, futVars, owed, notifs, idleNotifs,
                   base, call, stage, waitCalls, returned, absorbed, late>>

\* a notify() that does not bank a notification arriving with no waiter
NotifyMatchDropsBanked(t) ==
    /\ pc[t] = "n_match"
    /\ lock = t
    /\ notifs' = notifs + 1
    /\ absorbed' = IF state = "Notified" THEN absorbed + 1 ELSE absorbed
    /\ late' = IF pc[Driver] = "done" THEN late + 1 ELSE late
    /\ idleNotifs' = IF InWait(Driver) THEN idleNotifs ELSE idleNotifs + 1
    /\ CASE state = "Notified" ->
              /\ pc' = [pc EXCEPT ![t] = "n_unlock"]
              /\ UNCHANGED <<state, parked>>
         [] state = "Empty" ->
              /\ pc' = [pc EXCEPT ![t] = "n_unlock"]
              /\ UNCHANGED <<state, parked>>
         [] state = "Waiting" ->
              /\ state' = "Empty"
              /\ IF parked = {}
                 THEN /\ pc' = [pc EXCEPT ![t] = "n_unlock"]
                      /\ UNCHANGED parked
                 ELSE \E u \in parked :
                      /\ parked' = parked \ {u}
                      /\ pc' = [pc EXCEPT ![t] = "n_unlock", ![u] = "w_reacquire"]
    /\ UNCHANGED <<lock, poisoned, futVars, owed, base, call, stage, waitCalls, returned>>

\* a notify() that resets the mode of a waiting Signal and wakes nobody
NotifyMatchNoWake(t) ==
    /\ pc[t] = "n_match"
    /\ lock = t
    /\ notifs' = notifs + 1
    /\ absorbed' = IF state = "Notified" THEN absorbed + 1 ELSE absorbed
    /\ late' = IF pc[Driver] = "done" THEN late + 1 ELSE late
    /\ idleNotifs' = IF InWait(Driver) THEN idleNotifs ELSE idleNotifs + 1
    /\ CASE state = "Notified" ->
              /\ pc' = [pc EXCEPT ![t] = "n_unlock"]
              /\ UNCHANGED <<state, parked>>
         [] state = "Empty" ->
              /\ state' = "Notified"
              /\ pc' = [pc EXCEPT ![t] = "n_unlock"]
              /\ UNCHANGED parked
         [] state = "Waiting" ->
              /\ state' = "Empty"
              /\ pc' = [pc EXCEPT ![t] = "n_unlock"]
              /\ UNCHANGED parked
    /\ UNCHANGED <<lock, poisoned, futVars, owed, base, call, stage, waitCalls, returned>>

\* a notify() that leaves a waiting Signal Notified when it wakes the waiter
NotifyMatchMarksNotified(t) ==
    /\ pc[t] = "n_match"
    /\ lock = t
    /\ notifs' = notifs + 1
    /\ absorbed' = IF state = "Notified" THEN absorbed + 1 ELSE absorbed
    /\ late' = IF pc[Driver] = "done" THEN late + 1 ELSE late
    /\ idleNotifs' = IF InWait(Driver) THEN idleNotifs ELSE idleNotifs + 1
    /\ CASE state = "Notified" ->
              /\ pc' = [pc EXCEPT ![t] = "n_unlock"]
              /\ UNCHANGED <<state, parked>>
         [] state = "Empty" ->
              /\ state' = "Notified"
              /\ pc' = [pc EXCEPT ![t] = "n_unlock"]
              /\ UNCHANGED parked
         [] state = "Waiting" ->
              /\ state' = "Notified"
              /\ IF parked = {}
                 THEN /\ pc' = [pc EXCEPT ![t] = "n_unlock"]
                      /\ UNCHANGED parked
                 ELSE \E u \in parked :
                      /\ parked' = parked \ {u}
                      /\ pc' = [pc EXCEPT ![t] = "n_unlock", ![u] = "w_reacquire"]
    /\ UNCHANGED <<lock, poisoned, futVars, owed, base, call, stage, waitCalls, returned>>

\* lines 63-70: match *state
NotifyMatch(t) ==
    /\ pc[t] = "n_match"
    /\ lock = t
    /\ notifs' = notifs + 1
    /\ absorbed' = IF state = "Notified" THEN absorbed + 1 ELSE absorbed
    /\ late' = IF pc[Driver] = "done" THEN late + 1 ELSE late
    /\ idleNotifs' = IF InWait(Driver) THEN idleNotifs ELSE idleNotifs + 1
    /\ CASE state = "Notified" ->
              \* line 64
              /\ pc' = [pc EXCEPT ![t] = "n_unlock"]
              /\ UNCHANGED <<state, parked>>
         [] state = "Empty" ->
              \* line 65
              /\ state' = "Notified"
              /\ pc' = [pc EXCEPT ![t] = "n_unlock"]
              /\ UNCHANGED parked
         [] state = "Waiting" ->
              \* lines 66-69: notify_one wakes one parked thread, if there is one
              /\ state' = "Empty"
              /\ IF parked = {}
                 THEN /\ pc' = [pc EXCEPT ![t] = "n_unlock"]
                      /\ UNCHANGED parked
                 ELSE \E u \in parked :
                      /\ parked' = parked \ {u}
                      /\ pc' = [pc EXCEPT ![t] = "n_unlock", ![u] = "w_reacquire"]
    /\ UNCHANGED <<lock, poisoned, futVars, owed, base, call, stage, waitCalls, returned>>

\* line 71: the guard is dropped, notify() returns to its caller
NotifyReturn(t, after) ==
    /\ pc[t] = "n_unlock"
    /\ lock = t
    /\ lock' = None
    /\ pc' = [pc EXCEPT ![t] = after]
    /\ UNCHANGED <<state, poisoned, parked, futVars, owed, notifs, idleNotifs,
                   base, call, stage, waitCalls, returned, absorbed, late>>

\* ------------------------------------------------- the Signal on its own

InitSignal ==
    /\ InitCommon
    /\ pc = [t \in Threads |-> "idle"]
    /\ fut = NoFuture
    /\ owed = MaxNotifyCalls

WaiterStep(t) ==
    \/ CallWait(t)
    \/ WaitLock(t)
    \/ WaitMatch(t)
    \/ WaitLoop(t)
    \/ SpuriousWakeup(t)
    \/ CondReacquire(t)
    \/ WaitReturn(t, "idle")

NotifierStep(t) ==
    \/ CallNotify(t)
    \/ NotifyLock(t)
    \/ NotifyMatch(t)
    \/ NotifyReturn(t, "idle")

NextSignal ==
    \/ WaiterStep(Driver)
    \/ \E t \in Notifiers : NotifierStep(t)

SpecSignal == InitSignal /\ [][NextSignal]_vars

\* Scheduling: a thread holding the Mutex goes on to release it, a notifier
\* waiting for the Mutex gets it if the Mutex is free again and again.  Calls
\* of wait() and notify() and spurious wakeups may happen or not.
FairSignal ==
    /\ SpecSignal
    /\ WF_vars(WaitMatch(Driver))
    /\ WF_vars(WaitLoop(Driver))
    /\ WF_vars(WaitReturn(Driver, "idle"))
    /\ \A t \in Notifiers :
         /\ SF_vars(NotifyLock(t))
         /\ WF_vars(NotifyMatch(t))
         /\ WF_vars(NotifyReturn(t, "idle"))

NextMulti ==
    \/ \E t \in Waiters : WaiterStep(t)
    \/ \E t \in Notifiers : NotifierStep(t)

SpecMulti == InitSignal /\ [][NextMulti]_vars

\* ----------------------------------------------------------------- block_on

\* lines 88-92: the future is pinned, the Signal created, the Waker built on it
InitBlockOn ==
    /\ InitCommon
    /\ pc = [t \in Threads |-> IF t = Driver THEN "poll" ELSE "idle"]
    /\ fut \in Futures
    /\ owed = 0

\* what poll number k of the future returns (a panic does not return)
FutureOutcome(k) ==
    IF k <= fut.n THEN <<"Pending", 0>>
    ELSE IF fut.end = "ready" THEN <<"Ready", fut.val>>
    ELSE <<"Panic", fut.val>>

\* wake-handle invocations the future arranges when poll number k begins
Granted(k) ==
    IF fut.kind = "once"
    THEN (IF k <= fut.n THEN 1 ELSE 0)
    ELSE (IF k = 1 THEN MaxNotifyCalls ELSE 0)

\* line 94: fut.as_mut().poll(&mut context) is entered
PollBegin ==
    /\ pc[Driver] = "poll"
    /\ polls' = polls + 1
    /\ owed' = owed + Granted(polls + 1)
    /\ pc' = [pc EXCEPT ![Driver] = "polling"]
    /\ UNCHANGED <<sigVars, fut, waits, polled, result, notifs, idleNotifs,
                   base, call, stage, waitCalls, returned, absorbed, late>>

\* the future invokes the wake handle from inside its poll: lines 75-77
WakeInside ==
    /\ pc[Driver] = "polling"
    /\ owed > 0
    /\ owed' = owed - 1
    /\ pc' = [pc EXCEPT ![Driver] = "n_lock"]
    /\ stage' = 0
    /\ UNCHANGED <<sigVars, futVars, notifs, idleNotifs, base, call, waitCalls, returned, absorbed, late>>

\* line 94: poll returns a Poll value
PollReturn ==
    /\ pc[Driver] = "polling"
    /\ FutureOutcome(polls)[1] # "Panic"
    /\ polled' = FutureOutcome(polls)
    /\ pc' = [pc EXCEPT ![Driver] = "match"]
    /\ UNCHANGED <<sigVars, fut, polls, waits, owed, result, notifs, idleNotifs,
                   base, call, stage, waitCalls, returned, absorbed, late>>

\* a driver that catches the panic of a poll and hands it on as a value
PollPanicCaught ==
    /\ pc[Driver] = "polling"
    /\ FutureOutcome(polls)[1] = "Panic"
    /\ polled' = FutureOutcome(polls)
    /\ pc' = [pc EXCEPT ![Driver] = "match"]
    /\ UNCHANGED <<sigVars, fut, polls, waits, owed, result, notifs, idleNotifs, base,
                   call, stage, waitCalls, returned, absorbed, late>>

\* line 94: the future panics inside poll; block_on catches nothing, the panic
\* unwinds through it to its caller
PollPanic ==
    /\ pc[Driver] = "polling"
    /\ FutureOutcome(polls)[1] = "Panic"
    /\ polled' = FutureOutcome(polls)
    /\ result' = FutureOutcome(polls)
    /\ pc' = [pc EXCEPT ![Driver] = "panicked"]
    /\ UNCHANGED <<sigVars, fut, polls, waits, owed, notifs, idleNotifs, base,
                   call, stage, waitCalls, returned, absorbed, late>>

\* a driver that polls again at once after a Pending poll (it spins, never waits)
BlockOnMatchSpins ==
    /\ pc[Driver] = "match"
    /\ IF polled[1] = "Pending"
       THEN /\ pc' = [pc EXCEPT ![Driver] = "poll"]
            /\ UNCHANGED <<waits, result, call, idleNotifs, stage>>
       ELSE /\ result' = polled
            /\ pc' = [pc EXCEPT ![Driver] = "done"]
            /\ UNCHANGED <<waits, call, idleNotifs, stage>>
    /\ UNCHANGED <<sigVars, fut, polls, owed, polled, notifs, base, waitCalls, returned, absorbed, late>>

\* a driver that waits once at most and then returns what the poll gave
BlockOnMatchGivesUp ==
    /\ pc[Driver] = "match"
    /\ IF polled[1] = "Pending" /\ waits = 0
       THEN \* line 95: signal.wait()
            /\ waits' = waits + 1
            /\ EnterWait(Driver)
            /\ UNCHANGED result
       ELSE \* line 96: break item
            /\ result' = polled
            /\ pc' = [pc EXCEPT ![Driver] = "done"]
            /\ UNCHANGED <<waits, call, idleNotifs, stage>>
    /\ UNCHANGED <<sigVars, fut, polls, owed, polled, notifs, base, waitCalls, returned, absorbed, late>>

\* a driver that waits for a notification after its first poll, whatever the poll gave
BlockOnMatchWaitsFirst ==
    /\ pc[Driver] = "match"
    /\ IF polled[1] = "Pending" \/ waits = 0
       THEN \* line 95: signal.wait()
            /\ waits' = waits + 1
            /\ EnterWait(Driver)
            /\ UNCHANGED result
       ELSE \* line 96: break item
            /\ result' = polled
            /\ pc' = [pc EXCEPT ![Driver] = "done"]
            /\ UNCHANGED <<waits, call, idleNotifs, stage>>
    /\ UNCHANGED <<sigVars, fut, polls, owed, polled, notifs, base, waitCalls, returned, absorbed, late>>

\* a driver that polls once more after the first Ready
BlockOnMatchRepolls ==
    /\ pc[Driver] = "match"
    /\ IF polled[1] = "Pending"
       THEN \* line 95: signal.wait()
            /\ waits' = waits + 1
            /\ EnterWait(Driver)
            /\ UNCHANGED result
       ELSE \* line 96: break item
            /\ result' = IF polls > fut.n + 1 THEN polled ELSE result
            /\ pc' = [pc EXCEPT ![Driver] = IF polls > fut.n + 1 THEN "done" ELSE "poll"]
            /\ UNCHANGED <<waits, call, idleNotifs, stage>>
    /\ UNCHANGED <<sigVars, fut, polls, owed, polled, notifs, base, waitCalls, returned, absorbed, late>>

\* lines 94-97: match on the Poll value
BlockOnMatch ==
    /\ pc[Driver] = "match"
    /\ IF polled[1] = "Pending"
       THEN \* line 95: signal.wait()
            /\ waits' = waits + 1
            /\ EnterWait(Driver)
            /\ UNCHANGED result
       ELSE \* line 96: break item
            /\ result' = polled
            /\ pc' = [pc EXCEPT ![Driver] = "done"]
            /\ UNCHANGED <<waits, call, idleNotifs, stage>>
    /\ UNCHANGED <<sigVars, fut, polls, owed, polled, notifs, base, waitCalls, returned, absorbed, late>>

DriverStep ==
    \/ PollBegin
    \/ PollReturn
    \/ PollPanic
    \/ BlockOnMatch
    \/ WaitLock(Driver)
    \/ WaitMatch(Driver)
    \/ WaitLoop(Driver)
    \/ CondReacquire(Driver)
    \/ WaitReturn(Driver, "poll")
    \/ NotifyLock(Driver)
    \/ NotifyMatch(Driver)
    \/ NotifyReturn(Driver, "polling")

NextBlockOn ==
    \/ DriverStep
    \/ WakeInside
    \/ SpuriousWakeup(Driver)
    \/ \E t \in Notifiers : NotifierStep(t)

SpecBlockOn == InitBlockOn /\ [][NextBlockOn]_vars

\* Scheduling: a thread that can take a step is eventually run; a thread
\* waiting for the Mutex gets it if the Mutex is free again and again; a wake
\* that a "once" future owes is eventually invoked.  Spurious wakeups and a
\* wake from inside the poll may happen or not.
FairBlockOn ==
    /\ SpecBlockOn
    /\ WF_vars(DriverStep)
    /\ SF_vars(WaitLock(Driver))
    /\ SF_vars(CondReacquire(Driver))
    /\ SF_vars(NotifyLock(Driver))
    /\ \A t \in Notifiers :
         /\ WF_vars(fut.kind = "once" /\ CallNotify(t))
         /\ SF_vars(NotifyLock(t))
         /\ WF_vars(NotifyMatch(t))
         /\ WF_vars(NotifyReturn(t, "idle"))

\* ------------------------------------------------------------------ claims

\* the future of this run keeps the wake protocol and ends Ready
WellBehaved == fut.kind = "once" /\ fut.end = "ready"

\* C1: a wait() that begins after one or more notify() calls ran with no wait
\* in progress finds the mode Notified, resets it to Empty and returns; it
\* never sets the mode to Waiting and never parks on the condition variable.
NotifyBeforeWaitNotLost ==
    (InWait(Driver) /\ call[Driver].pre >= 1) =>
        /\ pc[Driver] \in {"w_lock", "w_match", "w_unlock"}
        /\ Driver \notin parked
        /\ pc[Driver] \in {"w_lock", "w_match"} => state = "Notified"
        /\ pc[Driver] = "w_unlock" => (state = "Empty" /\ call[Driver].path = "fast")

\* a wait() that began after a notify() is about to return, never having parked
NotifyBeforeWaitReturns ==
    /\ pc[Driver] = "w_unlock"
    /\ call[Driver].pre >= 1
    /\ call[Driver].path = "fast"
    /\ state = "Empty"

\* C2: with a future that has its wake handle invoked once per Pending poll
\* and ends Ready, every fair run of the driver and the notifiers reaches the
\* return of block_on; the driver is not left parked in wait() forever.
NoMissedWakeup == WellBehaved => <>(pc[Driver] = "done")

\* block_on has returned after its driver was parked and woken by a notifier
ReturnedAfterBlocking ==
    /\ WellBehaved
    /\ pc[Driver] = "done"
    /\ fut.n = MaxPending
    /\ call[Driver].path = "slow"

\* C3: with a future Pending on exactly fut.n polls, woken once per Pending
\* poll, block_on never polls more than fut.n + 1 times and every fair run ends
\* with block_on returned after exactly fut.n + 1 polls with the Ready value.
ExactlyNPlusOnePolls ==
    WellBehaved =>
        /\ [](polls <= fut.n + 1)
        /\ [](pc[Driver] = "done" => (polls = fut.n + 1 /\ result = <<"Ready", fut.val>>))
        /\ <>(pc[Driver] = "done" /\ polls = fut.n + 1 /\ result = <<"Ready", fut.val>>)

\* block_on has returned after MaxPending Pending polls, one of them woken
\* from inside the poll (the wait() after it did not park)
ReturnedAfterNPolls ==
    /\ WellBehaved
    /\ pc[Driver] = "done"
    /\ fut.n = MaxPending
    /\ polls = MaxPending + 1
    /\ waits = MaxPending
    /\ call[Driver].path = "fast"

\* C4: with a future Ready on its first poll, block_on polls once, never calls
\* Signal.wait() and returns the value of that poll; the mode is never Waiting
\* and is Empty unless the wake handle was invoked.
ReadyOnFirstPoll ==
    (fut.n = 0 /\ fut.end = "ready") =>
        /\ waits = 0
        /\ polls <= 1
        /\ ~InWait(Driver)
        /\ state = (IF notifs = 0 THEN "Empty" ELSE "Notified")
        /\ pc[Driver] = "done" => (polls = 1 /\ result = <<"Ready", fut.val>>)

\* block_on has returned from a first Ready poll, the Signal untouched
ReturnedFromFirstPoll ==
    /\ fut.n = 0
    /\ pc[Driver] = "done"
    /\ polls = 1
    /\ notifs = 0
    /\ state = "Empty"

\* C5: after two or more notify() calls with no wait() in between and none in
\* progress, the mode is Notified; the next wait() returns without parking and
\* leaves the mode Empty; a second wait() right after it, with no notify()
\* called meanwhile, sets the mode to Waiting and parks without returning.
IdempotentNotify ==
    /\ stage = 1 =>
        /\ pc[Driver] \in {"w_lock", "w_match", "w_unlock"}
        /\ call[Driver].pre >= 2
        /\ pc[Driver] \in {"w_lock", "w_match"} => state = "Notified"
        /\ pc[Driver] = "w_unlock" => state = "Empty"
    /\ stage = 2 => state = "Empty"
    /\ stage = 3 =>
        /\ pc[Driver] \in {"w_lock", "w_match"} \cup BlockingLabels
        /\ pc[Driver] \in {"w_lock", "w_match"} => state = "Empty"
        /\ pc[Driver] \in BlockingLabels => state = "Waiting"

\* the second wait() after k >= 2 notify() calls is parked
SecondWaitBlocks ==
    /\ stage = 3
    /\ pc[Driver] = "w_parked"
    /\ notifs >= 2

\* C6: a wait() called while another thread is in the blocking part of its own
\* wait() (it set the mode to Waiting and has not returned) fails: it does not
\* set the mode, park or return.
SecondWaiterAlwaysFatal ==
    \A t \in Waiters :
        call[t].second =>
            /\ pc[t] \in {"w_lock", "w_match", "panicked"}
            /\ call[t].path \in {"none", "panic"}

\* C7: a wait() returns only if a notify() ran after the last consumption of
\* a notification (on the blocking path: after the waiter set the mode to
\* Waiting); after a spurious wakeup with the mode still Waiting the waiter is
\* in the blocking part of wait(), not returning.
WaitReturnsOnlyOnNotify ==
    /\ (pc[Driver] \in {"w_unlock", "idle"} /\ call[Driver].path \in {"fast", "slow"})
          => call[Driver].ok
    /\ (InWait(Driver) /\ call[Driver].path = "slow" /\ notifs = call[Driver].mark)
          => (pc[Driver] \in BlockingLabels /\ state = "Waiting")

\* a waiter woken spuriously has parked again, no notify() having run
ParkedAgainAfterSpurious ==
    /\ pc[Driver] = "w_parked"
    /\ call[Driver].spur
    /\ notifs = call[Driver].mark

\* C8: block_on returns only on a poll that returned Ready, with that poll's
\* value: while the last poll is Pending nothing is returned, and after a
\* Ready poll the future is not polled again.
ReturnsOnlyOnReady ==
    /\ pc[Driver] = "done" =>
        /\ polled[1] = "Ready"
        /\ polled = FutureOutcome(polls)
        /\ result = polled
    /\ result[1] = "Ready" => pc[Driver] = "done"
    /\ polled[1] = "Pending" => result = NoneYet
    /\ polled[1] = "Ready" => (pc[Driver] \in {"match", "done"} /\ polls = fut.n + 1)

\* block_on has returned while a notification nobody consumed is banked
ReturnedWithBankedNotification ==
    /\ pc[Driver] = "done"
    /\ waits >= 1
    /\ state = "Notified"

\* C9: a panic of the future in a poll ends block_on with that panic: after it
\* the driver is not in Signal.wait(), has called wait() only for the Pending
\* polls before it, polls no more and has returned no value.
PanicPropagates ==
    /\ polled[1] = "Panic" =>
        /\ pc[Driver] = "panicked"
        /\ result = <<"Panic", fut.val>>
        /\ polls = fut.n + 1
        /\ waits = fut.n
    /\ pc[Driver] = "panicked" => polled[1] = "Panic"
    /\ (fut.end = "panic" /\ fut # NoFuture) => pc[Driver] # "done"

\* the future panicked in the poll that followed a wait()
PanickedAfterWait ==
    /\ pc[Driver] = "panicked"
    /\ fut.n >= 1
    /\ waits >= 1
    /\ result[1] = "Panic"

\* C10 as stated: whenever wait() returns, the mode is Empty.
ModeEmptyOnReturn == pc[Driver] = "w_unlock" => state = "Empty"

\* C10 as amended: when a wait() that found the mode Notified returns, the mode
\* is Empty; when a wait() that went through the blocking path returns, the
\* mode is Empty if one notify() ran since the waiter set it to Waiting, and
\* Notified if more did.
ModeOnReturn ==
    pc[Driver] = "w_unlock" =>
        /\ call[Driver].path \in {"fast", "slow"}
        /\ call[Driver].path = "fast" => state = "Empty"
        /\ call[Driver].path = "slow" =>
            /\ notifs > call[Driver].mark
            /\ state = (IF notifs = call[Driver].mark + 1 THEN "Empty" ELSE "Notified")

\* a wait() that parked returns with the mode Notified
BlockingWaitReturnsNotified ==
    /\ pc[Driver] = "w_unlock"
    /\ call[Driver].path = "slow"
    /\ state = "Notified"

\* the critical section of a notify() call of thread t executes in this step
NotifyActs(t) == pc[t] = "n_match" /\ pc'[t] = "n_unlock"

\* C11: notify() never fails, and its critical section, run holding the lock,
\* takes Notified to Notified and Empty to Notified waking nobody, and Waiting
\* to Empty waking the parked waiter; no step of it leaves the mode Waiting.
NotifyIsTotal ==
    /\ [](~poisoned /\ \A t \in Notifiers : pc[t] # "panicked")
    /\ [][\A t \in Threads :
            NotifyActs(t) =>
                /\ lock = t /\ lock' = t
                /\ state' # "Waiting"
                /\ state = "Notified" => (state' = "Notified" /\ parked' = parked
                                          /\ pc'[Driver] = pc[Driver])
                /\ state = "Empty" => (state' = "Notified" /\ parked' = parked
                                       /\ pc'[Driver] = pc[Driver])
                /\ state = "Waiting" =>
                      /\ state' = "Empty"
                      /\ parked' = {}
                      /\ Driver \in parked => pc'[Driver] = "w_reacquire"]_vars

\* a notify() has found the mode Waiting, reset it and woken the parked waiter
NotifyWokeWaiter ==
    /\ \E t \in Notifiers : pc[t] = "n_unlock"
    /\ state = "Empty"
    /\ pc[Driver] = "w_reacquire"
    /\ ~call[Driver].spur

\* the driver loop's state; Failed is block_on left by a panic
DriverState ==
    IF pc[Driver] = "done" THEN "Done"
    ELSE IF pc[Driver] = "panicked" THEN "Failed"
    ELSE IF InWait(Driver) THEN "Blocked"
    ELSE "Polling"

\* what holds of every step of the driver, whatever the transitions allowed
DriverStepRules(allowed) ==
    /\ DriverState' # DriverState => <<DriverState, DriverState'>> \in allowed
    /\ (DriverState = "Polling" /\ DriverState' = "Done") => polled[1] = "Ready"
    /\ (DriverState = "Polling" /\ DriverState' = "Blocked") => polled[1] = "Pending"
    /\ (DriverState = "Blocked" /\ DriverState' = "Polling") => pc[Driver] = "w_unlock"
    /\ (pc'[Driver] = "poll" /\ pc[Driver] # "poll") => DriverState = "Blocked"
    /\ polls' # polls => pc[Driver] = "poll"
    /\ DriverState = "Done" =>
          (pc'[Driver] = "done" /\ polls' = polls /\ waits' = waits /\ result' = result)

MachineTransitions ==
    {<<"Polling", "Done">>, <<"Polling", "Blocked">>, <<"Blocked", "Polling">>}

\* C12 as stated: the driver starts in Polling and its only transitions are
\* Polling -> Done on a Ready poll, Polling -> Blocked on a Pending poll and
\* Blocked -> Polling when wait() returns; Done is terminal.
DriverMachineOnly ==
    /\ DriverState = "Polling"
    /\ [][DriverStepRules(MachineTransitions)]_vars

\* C12 as amended: the same machine with one more way out of Polling, the
\* panic of the future in a poll, which ends block_on (Failed, terminal too).
DriverMachine ==
    /\ DriverState = "Polling"
    /\ [][/\ DriverStepRules(MachineTransitions \cup {<<"Polling", "Failed">>})
          /\ (DriverState = "Polling" /\ DriverState' = "Failed")
                => (pc[Driver] = "polling" /\ polled'[1] = "Panic")
          /\ DriverState = "Failed" => (pc'[Driver] = "panicked" /\ polls' = polls
                                        /\ waits' = waits /\ result' = result)]_vars

\* the driver is Done after going through Blocked, once woken spuriously
DoneAfterBlocked ==
    /\ DriverState = "Done"
    /\ returned = MaxPending
    /\ polls = MaxPending + 1
    /\ call[Driver].spur

\* C13: in a block_on call wait() is called by the driver thread only, after a
\* Pending poll and before the next poll, so at most one wait() is active and
\* no wait() ever finds the mode Waiting: the fatal branch is never taken and
\* the Mutex never poisoned.
SingleWaiterInBlockOn ==
    /\ \A t \in Threads \ {Driver} : ~InWait(t)
    /\ Cardinality({t \in Threads : InWait(t)}) <= 1
    /\ InWait(Driver) => (polled[1] = "Pending" /\ waits = polls /\ returned = waits - 1)
    /\ pc[Driver] = "w_match" => state # "Waiting"
    /\ call[Driver].path # "panic"
    /\ ~poisoned
    /\ pc[Driver] = "panicked" => polled[1] = "Panic"

\* the driver's second wait() is about to read the mode while a notifier is
\* inside notify()
SecondWaitReadsMode ==
    /\ pc[Driver] = "w_match"
    /\ waits = 2
    /\ \E t \in Notifiers : pc[t] = "n_lock"

\* C14: block_on polls, then alternates one wait() and one poll: the polls
\* started are 1 + the wait() calls returned (at the head of the loop, where
\* the next poll is the next statement, they are equal), each poll that
\* returned Pending has its one wait() call, and a poll starts only when every
\* earlier poll had its wait() returned.
PollsMatchWaits ==
    /\ polls = (IF pc[Driver] = "poll" THEN returned ELSE returned + 1)
    /\ waits = (IF InWait(Driver) THEN returned + 1 ELSE returned)
    /\ pc[Driver] \in WaitLabels \cup {"poll"} => waits = polls
    /\ pc[Driver] \notin WaitLabels \cup {"poll"} => waits = polls - 1

\* the last poll is running after MaxPending wait() calls have returned
LastPollAfterWaits ==
    /\ pc[Driver] = "polling"
    /\ polls = MaxPending + 1
    /\ returned = MaxPending
    /\ waits = MaxPending

\* notifications a wait() has consumed: one per wait() returned, and one for the
\* wait() in progress once it took the banked one or was released by notify()
Consumed ==
    returned + (IF \/ pc[Driver] = "w_unlock"
                   \/ (pc[Driver] \in BlockingLabels /\ state # "Waiting")
                THEN 1 ELSE 0)

Banked == IF state = "Notified" THEN 1 ELSE 0

\* C15: notify() calls that run while the driver is outside wait() are banked
\* as Notified and the next wait() returns without parking; every notify()
\* either found Notified (no effect), is the one banked, or made exactly one
\* wait() return, so however many arrive late they cost one poll; block_on
\* still returns only after fut.n + 1 polls, with the Ready value.
LateNotifyCostsOnePoll ==
    /\ (~InWait(Driver) /\ idleNotifs >= 1) => state = "Notified"
    /\ (InWait(Driver) /\ call[Driver].pre >= 1) =>
          (pc[Driver] \in {"w_lock", "w_match", "w_unlock"} /\ Driver \notin parked)
    /\ notifs = absorbed + Banked + Consumed
    /\ polls <= 1 + notifs - absorbed
    /\ pc[Driver] = "done" => (polls = fut.n + 1 /\ result = <<"Ready", fut.val>>)

\* two notify() calls arrived after the first wait() returned; the second
\* wait() took the one notification they left and is about to return
LateNotifiesCollapsed ==
    /\ pc[Driver] = "w_unlock"
    /\ waits = 2
    /\ call[Driver].pre >= 2
    /\ call[Driver].path = "fast"
    /\ absorbed >= 1

\* C16: while the mode is Waiting exactly one thread, the driver, is inside the
\* blocking loop of wait(); while the driver is polling, done (or has failed)
\* the mode is Empty or Notified.
WaitingMeansBlocked ==
    /\ state = "Waiting" =>
          /\ pc[Driver] \in BlockingLabels
          /\ Cardinality({t \in Threads : pc[t] \in BlockingLabels}) = 1
    /\ DriverState # "Blocked" => state \in {"Empty", "Notified"}

\* the driver, woken spuriously, is about to re-check a mode still Waiting
\* while a notifier holds the lock
WokenWhileStillWaiting ==
    /\ state = "Waiting"
    /\ pc[Driver] = "w_reacquire"
    /\ \E t \in Notifiers : pc[t] = "n_match"

\* positions at which a thread holds the Mutex
CriticalLabels == {"w_match", "w_loop", "w_unlock", "n_match", "n_unlock"}

\* C17: the Mutex is held exactly by the thread inside a critical section of
\* wait() or notify(), so by one thread at most and never by a parked waiter;
\* while the waiter is parked a notifier asking for the free Mutex can take
\* it, and every notify() call that began returns.
LockFreeWhileParked ==
    /\ [](\A t \in Threads : (lock = t) <=> (pc[t] \in CriticalLabels))
    /\ [](Cardinality({t \in Threads : pc[t] \in CriticalLabels}) <= 1)
    /\ [](\A t \in Waiters : pc[t] \in {"w_parked", "w_reacquire"} => lock # t)
    /\ [](\A t \in Notifiers :
            (pc[Driver] = "w_parked" /\ pc[t] = "n_lock" /\ lock = None)
                => ENABLED NotifyLock(t))
    /\ \A t \in Notifiers : (pc[t] = "n_lock") ~> (pc[t] = "idle")

\* the waiter is parked, one notifier is inside its critical section and the
\* other is asking for the Mutex
NotifiersRunWhileParked ==
    /\ pc[Driver] = "w_parked"
    /\ lock \in Notifiers
    /\ \E t \in Notifiers : pc[t] = "n_lock"

\* C18: once block_on has returned, a wake only turns Empty into Notified or
\* leaves Notified: it never finds Waiting, wakes or fails no thread, and the
\* driver stays done with the value it returned.
WakeAfterReturnInert ==
    /\ [](pc[Driver] = "done" =>
            /\ state \in {"Empty", "Notified"}
            /\ parked = {}
            /\ ~poisoned
            /\ \A t \in Threads : pc[t] # "panicked")
    /\ [][pc[Driver] = "done" =>
            /\ pc'[Driver] = "done"
            /\ result' = result /\ polls' = polls /\ waits' = waits
            /\ parked' = parked
            /\ \A t \in Notifiers : NotifyActs(t) => state' = "Notified"
            /\ state' # state => \E t \in Notifiers : NotifyActs(t)]_vars

\* two wakes ran after block_on returned
WokenTwiceAfterReturn ==
    /\ pc[Driver] = "done"
    /\ late >= 2
    /\ state = "Notified"
    /\ result = <<"Ready", fut.val>>

\* C19: with a single waiter, the wait() calls returned (or about to return),
\* plus the notification still banked, never outnumber the notify() critical
\* sections executed: no notify() releases two wait() calls.
NotificationsNotDuplicated ==
    /\ returned <= notifs
    /\ returned + (IF pc[Driver] = "w_unlock" THEN 1 ELSE 0) + Banked <= notifs

\* every notify() so far released one wait()
EachNotifyReleasedOneWait ==
    /\ returned >= 2
    /\ notifs = returned

====
